---------------------------- MODULE Spec2Model ----------------------------
(***************************************************************************)
(* The Flask calendar application of src/app.py as a state machine: the   *)
(* in-memory event list, the id counter, and one action per request       *)
(* handler.  Requests are served one at a time (the development server's  *)
(* single-threaded mode); each action is one whole request.               *)
(*                                                                         *)
(* Data representation                                                     *)
(*   - A text (title, description) is a run-length encoded Python str: a  *)
(*     sequence of runs [c, n], c = " " (whitespace) or "x" (any other    *)
(*     character), so that strip() and len() are computed, not assumed.   *)
(*   - A timestamp string is [fmt, t]: the form it is written in and the  *)
(*     instant (seconds since midnight of day 0) it denotes.              *)
(*   - None (a JSON null, or the result of dict.get on a missing key) is  *)
(*     NoneV.  A request body is a function from the keys it carries to   *)
(*     their values.                                                       *)
(***************************************************************************)
EXTENDS Integers, Sequences, FiniteSets, TLC

VARIABLES
    events,         \* app.py:22  the module-level list of event dicts
    event_counter,  \* app.py:23  the next id to assign
    now,            \* the wall clock, what datetime.now() returns
    uptime,         \* seconds since the process started
    resp,           \* the request served by the last step and its response
    issued,         \* history: every id assigned so far, in order of assignment
    deleted,        \* history: every id a DELETE has removed
    threads,        \* the request each server thread is serving, and its locals
    overlapped      \* history: a request began while another was being served

vars == <<events, event_counter, now, uptime, resp, issued, deleted, threads,
          overlapped>>

-----------------------------------------------------------------------------
(* Bounds of the model *)

\* at most this many events are ever created in one run
MaxEvents == 2
\* at most this many requests are served at the same time
MaxThreads == 2
\* the clock advances at most this many times (by ClockStep seconds each)
MaxTicks == 1

-----------------------------------------------------------------------------
(* Calendar arithmetic of datetime / timedelta *)

SecondsPerMinute == 60
SecondsPerHour == 60 * SecondsPerMinute
SecondsPerDay == 24 * SecondsPerHour

\* timedelta(weeks=7), app.py:152
AutoWeeks == 7
\* replace(hour = 9, ...), app.py:156
AutoHour == 9
\* timedelta(hours=2), app.py:164
AutoDurationHours == 2

DayOf(t) == t \div SecondsPerDay
SecondOfDay(t) == t % SecondsPerDay

-----------------------------------------------------------------------------
(* Python values *)

NoneV == [ty |-> "none"]

\* a str used as title or description: runs of whitespace / other characters
Text(runs) == [ty |-> "str", s |-> runs]
\* l blanks, n other characters, r blanks
Padded(l, n, r) ==
    Text((IF l > 0 THEN <<[c |-> " ", n |-> l]>> ELSE <<>>) \o
         (IF n > 0 THEN <<[c |-> "x", n |-> n]>> ELSE <<>>) \o
         (IF r > 0 THEN <<[c |-> " ", n |-> r]>> ELSE <<>>))

\* words of the given lengths, separated by single blanks
RECURSIVE WordRuns(_)
WordRuns(ns) ==
    IF ns = <<>> THEN <<>>
    ELSE <<[c |-> "x", n |-> Head(ns)]>> \o
         (IF Tail(ns) = <<>> THEN <<>> ELSE <<[c |-> " ", n |-> 1]>>) \o
         WordRuns(Tail(ns))
Words(ns) == Text(WordRuns(ns))

\* a str used as start or end: written in form fmt, denoting instant t
\*   "ymdhm" YYYY-MM-DDTHH:MM      "sec"  YYYY-MM-DDTHH:MM:SS
\*   "date"  YYYY-MM-DD            "tz"   YYYY-MM-DDTHH:MM+00:00
\*   "bad"   not an ISO timestamp  "empty" the empty string
Stamp(fmt, t) == [ty |-> "str", fmt |-> fmt, t |-> t]

\* str.strip() on the runs of a text
RECURSIVE lstrip(_)
lstrip(s) == IF s # <<>> /\ Head(s).c = " " THEN lstrip(Tail(s)) ELSE s
RECURSIVE rstrip(_)
rstrip(s) ==
    IF s # <<>> /\ s[Len(s)].c = " " THEN rstrip(SubSeq(s, 1, Len(s) - 1)) ELSE s
strip(v) == Text(rstrip(lstrip(v.s)))

\* len() of a text
RECURSIVE RunsLen(_)
RunsLen(s) == IF s = <<>> THEN 0 ELSE Head(s).n + RunsLen(Tail(s))
len(v) == RunsLen(v.s)

\* Python truthiness of a field value: None and "" are falsy
TextTruthy(v) == v.ty = "str" /\ v.s # <<>>
StampTruthy(v) == v.ty = "str" /\ v.fmt # "empty"

\* dict.get(key): the value, or None when the key is missing
Get(data, key) == IF key \in DOMAIN data THEN data[key] ELSE NoneV
\* dict.get(key, default)
GetOr(data, key, default) == IF key \in DOMAIN data THEN data[key] ELSE default

-----------------------------------------------------------------------------
(* datetime.fromisoformat and strftime("%Y-%m-%dT%H:%M") *)

\* the parse of a timestamp string: ValueError, or a datetime that is naive or
\* carries a UTC offset (aware)
fromisoformat(v) ==
    CASE v.fmt \in {"ymdhm", "sec", "date"} ->
            [ok |-> TRUE, aware |-> FALSE, t |-> v.t]
      [] v.fmt = "tz" -> [ok |-> TRUE, aware |-> TRUE, t |-> v.t]
      [] OTHER -> [ok |-> FALSE, aware |-> FALSE, t |-> 0]

\* formatting drops the seconds
strftime(t) == Stamp("ymdhm", t - (t % SecondsPerMinute))

-----------------------------------------------------------------------------
(* validate_event_data, app.py:64-132 *)

\* length limits of the validation rules
TitleMin == 3
TitleMax == 200
DescriptionMin == 10
DescriptionMax == 1000

\* the outcome of a call: a returned value, or the exception it raised
Return(v) == [exc |-> "none", val |-> v]
Raise(e) == [exc |-> e, val |-> <<>>]

\* a title rule that rejects the minimum length itself
TitleErrorsExclusive(data) ==
    IF ~TextTruthy(Get(data, "title")) \/ len(strip(data["title"])) <= TitleMin
    THEN <<"Title must be at least 3 characters long">>
    ELSE IF len(strip(data["title"])) > TitleMax
         THEN <<"Title must be less than 200 characters">>
         ELSE <<>>

\* app.py:91-94
TitleErrors(data) ==
    IF ~TextTruthy(Get(data, "title")) \/ len(strip(data["title"])) < TitleMin
    THEN <<"Title must be at least 3 characters long">>
    ELSE IF len(strip(data["title"])) > TitleMax
         THEN <<"Title must be less than 200 characters">>
         ELSE <<>>

\* app.py:97-108.  Comparing a datetime that carries a UTC offset with the
\* naive datetime.now() raises TypeError, which the handler does not catch.
StartErrors(data, clock) ==
    IF ~StampTruthy(Get(data, "start"))
    THEN Return(<<"Start date and time are required">>)
    ELSE LET start_dt == fromisoformat(data["start"])
         IN  IF ~start_dt.ok THEN Return(<<"Invalid start date format">>)
             ELSE IF start_dt.aware THEN Raise("TypeError")
             ELSE IF start_dt.t < clock
                  THEN Return(<<"Start dates cannot be in the past">>)
                  ELSE Return(<<>>)

\* app.py:111-124.  The start string is parsed again inside the try block of
\* the end date, so a start that does not parse is reported by the except
\* clause of the end date.
EndErrors(data) ==
    IF ~StampTruthy(Get(data, "end"))
    THEN Return(<<"End date and time are required">>)
    ELSE LET end_dt == fromisoformat(data["end"])
         IN  IF ~end_dt.ok THEN Return(<<"Invalid end date format">>)
             ELSE IF StampTruthy(Get(data, "start"))
                  THEN LET start_dt == fromisoformat(data["start"])
                       IN  IF ~start_dt.ok
                           THEN Return(<<"Invalid end date format">>)
                           ELSE IF start_dt.aware # end_dt.aware
                                THEN Raise("TypeError")
                           ELSE IF end_dt.t <= start_dt.t
                                THEN Return(<<"End time must be after start time">>)
                                ELSE Return(<<>>)
                  ELSE Return(<<>>)

\* app.py:127-130
DescriptionErrors(data) ==
    IF ~TextTruthy(Get(data, "description"))
          \/ len(strip(data["description"])) < DescriptionMin
    THEN <<"Description must be at least 10 characters long">>
    ELSE IF len(strip(data["description"])) > DescriptionMax
         THEN <<"Description must be less than 1000 characters">>
         ELSE <<>>

\* a validator that checks the description before the title
validate_event_data_description_first(data, is_auto, clock) ==
    IF is_auto THEN Return(<<>>)
    ELSE LET s == StartErrors(data, clock)
             e == EndErrors(data)
         IN  IF s.exc # "none" THEN s
             ELSE IF e.exc # "none" THEN e
             ELSE Return(DescriptionErrors(data) \o TitleErrors(data)
                             \o s.val \o e.val)

\* app.py:85-132: the list of error messages, in the order of the checks
validate_event_data(data, is_auto, clock) ==
    IF is_auto THEN Return(<<>>)
    ELSE LET s == StartErrors(data, clock)
             e == EndErrors(data)
         IN  IF s.exc # "none" THEN s
             ELSE IF e.exc # "none" THEN e
             ELSE Return(TitleErrors(data) \o s.val \o e.val
                             \o DescriptionErrors(data))

-----------------------------------------------------------------------------
(* The two factories, app.py:134-197 *)

\* "Auto Scheduled DR Test", app.py:160
AutoTitle == Words(<<4, 9, 2, 4>>)
\* "Automatically scheduled Disaster Recovery Test - 7 weeks from creation
\* date", app.py:165
AutoDescription == Words(<<13, 9, 8, 8, 4, 1, 1, 5, 4, 8, 4>>)

\* an auto date that keeps the time of day of the request
AutoDateKeepsTime(clock) == clock + AutoWeeks * 7 * SecondsPerDay

\* an auto date that forgets the seven weeks: 09:00:00 of the request's day
AutoDateToday(clock) == clock - SecondOfDay(clock) + AutoHour * SecondsPerHour

\* app.py:152-156: now + 7 weeks, then the time of day replaced by 09:00:00
AutoDate(clock) ==
    LET shifted == clock + AutoWeeks * 7 * SecondsPerDay
    IN  shifted - SecondOfDay(shifted) + AutoHour * SecondsPerHour

\* an auto event that lasts two minutes instead of two hours
create_auto_event_minutes(clock) ==
    [title |-> AutoTitle,
     start |-> strftime(AutoDate(clock)),
     end |-> strftime(AutoDate(clock) + AutoDurationHours * SecondsPerMinute),
     description |-> AutoDescription,
     type |-> "auto"]

\* app.py:159-167
create_auto_event(clock) ==
    [title |-> AutoTitle,
     start |-> strftime(AutoDate(clock)),
     end |-> strftime(AutoDate(clock) + AutoDurationHours * SecondsPerHour),
     description |-> AutoDescription,
     type |-> "auto"]

\* app.py:188-197: form_data[key] raises KeyError on a missing key, and
\* None.strip() raises AttributeError; the fields are read in this order
create_manual_event(form_data) ==
    IF "title" \notin DOMAIN form_data THEN Raise("KeyError")
    ELSE IF form_data["title"].ty # "str" THEN Raise("AttributeError")
    ELSE IF "start" \notin DOMAIN form_data THEN Raise("KeyError")
    ELSE IF "end" \notin DOMAIN form_data THEN Raise("KeyError")
    ELSE IF "description" \notin DOMAIN form_data THEN Raise("KeyError")
    ELSE IF form_data["description"].ty # "str" THEN Raise("AttributeError")
    ELSE Return([title |-> strip(form_data["title"]),
                 start |-> form_data["start"],
                 end |-> form_data["end"],
                 description |-> strip(form_data["description"]),
                 type |-> "manual"])

-----------------------------------------------------------------------------
(* The store, app.py:22-63 *)

\* a lookup that takes the id for a position in the list
get_event_by_id_index(evs, event_id) ==
    IF event_id \in 1..Len(evs) THEN evs[event_id] ELSE NoneV

\* a lookup that returns the loop variable after the loop instead of None
get_event_by_id_last(evs, event_id) ==
    IF \E i \in 1..Len(evs) : evs[i].id = event_id
    THEN evs[CHOOSE i \in 1..Len(evs) :
                 /\ evs[i].id = event_id
                 /\ \A j \in 1..(i - 1) : evs[j].id # event_id]
    ELSE IF evs # <<>> THEN evs[Len(evs)] ELSE NoneV

\* app.py:41-45: the first event with this id, or None
get_event_by_id(evs, event_id) ==
    IF \E i \in 1..Len(evs) : evs[i].id = event_id
    THEN evs[CHOOSE i \in 1..Len(evs) :
                 /\ evs[i].id = event_id
                 /\ \A j \in 1..(i - 1) : evs[j].id # event_id]
    ELSE NoneV

\* a handler without the not-found test
IsNoneNever(v) == FALSE

\* "if not event" / "event is None"
IsNone(v) == "ty" \in DOMAIN v /\ v.ty = "none"

\* a save that removes the old event and appends the updated one
save_event_moves(evs, updated_event) ==
    Append(SelectSeq(evs, LAMBDA e : e.id # updated_event.id), updated_event)

\* app.py:58-63: replace the first event that has the id of updated_event
save_event(evs, updated_event) ==
    IF \E i \in 1..Len(evs) : evs[i].id = updated_event.id
    THEN LET i == CHOOSE k \in 1..Len(evs) :
                      /\ evs[k].id = updated_event.id
                      /\ \A j \in 1..(k - 1) : evs[j].id # updated_event.id
         IN  [evs EXCEPT ![i] = updated_event]
    ELSE evs

\* an edit that rebuilds the event as a manual one
SetInPlaceRetyped(evs, event_id, key, value) ==
    LET i == CHOOSE k \in 1..Len(evs) :
                 /\ evs[k].id = event_id
                 /\ \A j \in 1..(k - 1) : evs[j].id # event_id
    IN  [evs EXCEPT ![i] = [evs[i] EXCEPT ![key] = value, !.type = "manual"]]

\* an assignment event[key] = value on a dict that is an element of the list:
\* the list element itself changes (get_event_by_id returns a reference)
SetInPlace(evs, event_id, key, value) ==
    LET i == CHOOSE k \in 1..Len(evs) :
                 /\ evs[k].id = event_id
                 /\ \A j \in 1..(k - 1) : evs[j].id # event_id
    IN  [evs EXCEPT ![i] = [evs[i] EXCEPT ![key] = value]]

\* an assignment that gives every event the id 1
WithIdOne(event_data, id) ==
    [id |-> 1,
     title |-> event_data.title,
     start |-> event_data.start,
     end |-> event_data.end,
     description |-> event_data.description,
     type |-> event_data.type]

\* app.py:426 (329, 366): event_data["id"] = event_counter
WithId(event_data, id) ==
    [id |-> id,
     title |-> event_data.title,
     start |-> event_data.start,
     end |-> event_data.end,
     description |-> event_data.description,
     type |-> event_data.type]

\* a counter that advances by two
NextCounterSkips(counter) == counter + 2

\* a counter that is never advanced
NextCounterStuck(counter) == counter

\* app.py:428 (331, 368): event_counter += 1
NextCounter(counter) == counter + 1

\* a delete that also drops the events created after the one it is asked for
WithoutIdAndLater(evs, event_id) == SelectSeq(evs, LAMBDA e : e.id < event_id)

\* a delete that drops the last event of the list, whatever its id
WithoutIdPop(evs, event_id) == SubSeq(evs, 1, Len(evs) - 1)

\* a delete whose filtered list is bound to a local name: the store keeps all
WithoutIdUnbound(evs, event_id) == evs

\* app.py:497: [e for e in events if e["id"] != event_id]
WithoutId(evs, event_id) == SelectSeq(evs, LAMBDA e : e.id # event_id)

-----------------------------------------------------------------------------
(* Requests and responses *)

NoData == [k \in {} |-> NoneV]

\* the record of one served request: what was asked and what was answered.
\* id is the id in the URL, or the id assigned by a create (0: none);
\* status is the HTTP status (an unhandled exception is a 500)
Response(route, method, id, data, status, errors, error) ==
    [route |-> route, method |-> method, id |-> id, data |-> data,
     status |-> status, errors |-> errors, error |-> error,
     event |-> NoneV, listing |-> <<>>, total |-> 0]

\* a response whose JSON body carries one event: {"event": event}
WithEvent(r, event) == [r EXCEPT !.event = event]
\* a response whose JSON body carries the list: {"events": ..., "total": ...}
WithListing(r, evs, total) == [r EXCEPT !.listing = evs, !.total = total]

\* HTTP status codes the handlers and Flask answer with
Ok == 200
Created == 201
Found == 302
BadRequest == 400
NotFound == 404
ServerError == 500

\* the server threads, and a thread that serves no request.  route and id
\* are those of the request; event is the local event_data of a create, tmp
\* the value `event_counter += 1` has loaded, copy the list the comprehension
\* of a DELETE has built
Threads == 1..MaxThreads
Idle ==
    [pc |-> "idle", route |-> "", id |-> 0, event |-> NoneV, tmp |-> 0,
     copy |-> <<>>]

\* the clock moves between requests, in steps of ClockStep seconds
ClockStep == 30
Advance == {d \in {0, ClockStep} : uptime + d <= MaxTicks * ClockStep}

\* a request served from arrival to response in one step: no other request
\* is in service meanwhile
Tick(d) ==
    /\ now' = now + d
    /\ uptime' = uptime + d
    /\ UNCHANGED <<threads, overlapped>>

\* app.py:426-428 (329-331, 366-368): assign the id, append, advance the counter
Store(event_data) ==
    /\ events' = Append(events, WithId(event_data, event_counter))
    /\ event_counter' = NextCounter(event_counter)
    /\ issued' = Append(issued, event_counter)
    /\ UNCHANGED deleted

-----------------------------------------------------------------------------
(* The request handlers.  d is the time that passed since the last request. *)

\* GET /api/events, app.py:389-396
ApiEventsGet(d) ==
    /\ Tick(d)
    /\ resp' = WithListing(Response("/api/events", "GET", 0, NoData, Ok, <<>>, ""),
                           events, Len(events))
    /\ UNCHANGED <<events, event_counter, issued, deleted>>

\* POST /api/events, app.py:397-435
ApiEventsPost(data, d) ==
    LET clock == now + d
        is_auto == GetOr(data, "schedule_type", "manual") = "auto"
        made == IF is_auto THEN Return(create_auto_event(clock))
                ELSE create_manual_event(data)
        checked == IF is_auto THEN validate_event_data(made.val, TRUE, clock)
                   ELSE validate_event_data(data, FALSE, clock)
        Answer(id, status, errors, error) ==
            resp' = Response("/api/events", "POST", id, data, status, errors, error)
    IN  /\ event_counter <= MaxEvents
        /\ Tick(d)
        /\ IF DOMAIN data = {}
           THEN /\ Answer(0, BadRequest, <<>>, "No JSON data provided")
                /\ UNCHANGED <<events, event_counter, issued, deleted>>
           ELSE IF made.exc # "none"
           THEN /\ Answer(0, ServerError, <<>>, made.exc)
                /\ UNCHANGED <<events, event_counter, issued, deleted>>
           ELSE IF checked.exc # "none"
           THEN /\ Answer(0, ServerError, <<>>, checked.exc)
                /\ UNCHANGED <<events, event_counter, issued, deleted>>
           ELSE IF checked.val # <<>>
           THEN /\ Answer(0, BadRequest, checked.val, "")
                /\ UNCHANGED <<events, event_counter, issued, deleted>>
           ELSE /\ Store(made.val)
                /\ Answer(event_counter, Created, <<>>, "")

\* POST /add_event, app.py:304-344.  request.form[key] on a missing key raises
\* BadRequestKeyError, which Flask answers with 400; a rendered template is a
\* 200.  api: the query string carries api=true.
AddEventPost(form, api, d) ==
    LET clock == now + d
        is_auto == "schedule_type" \in DOMAIN form /\ form["schedule_type"] = "auto"
        made == IF is_auto THEN Return(create_auto_event(clock))
                ELSE create_manual_event(form)
        checked == IF is_auto THEN validate_event_data(made.val, TRUE, clock)
                   ELSE validate_event_data(form, FALSE, clock)
        Answer(id, status, errors, error) ==
            resp' = Response(IF api THEN "/add_event?api=true" ELSE "/add_event",
                             "POST", id, form, status, errors, error)
    IN  /\ event_counter <= MaxEvents
        /\ Tick(d)
        /\ IF made.exc = "KeyError"
           THEN /\ Answer(0, BadRequest, <<>>, made.exc)
                /\ UNCHANGED <<events, event_counter, issued, deleted>>
           ELSE IF made.exc # "none"
           THEN /\ Answer(0, ServerError, <<>>, made.exc)
                /\ UNCHANGED <<events, event_counter, issued, deleted>>
           ELSE IF checked.exc # "none"
           THEN /\ Answer(0, ServerError, <<>>, checked.exc)
                /\ UNCHANGED <<events, event_counter, issued, deleted>>
           ELSE IF checked.val # <<>>
           THEN /\ Answer(0, Ok, checked.val, "")
                /\ UNCHANGED <<events, event_counter, issued, deleted>>
           ELSE /\ Store(made.val)
                /\ Answer(event_counter, IF api THEN Created ELSE Found, <<>>, "")

\* POST /auto_schedule, app.py:359-369
AutoSchedulePost(d) ==
    /\ event_counter <= MaxEvents
    /\ Tick(d)
    /\ Store(create_auto_event(now + d))
    /\ resp' = Response("/auto_schedule", "POST", event_counter, NoData, Found,
                        <<>>, "")

\* app.py:482-487: the four fields of the event overlaid with those the
\* request carries
Overlay(event, data) ==
    [event EXCEPT !.title = GetOr(data, "title", event.title),
                  !.start = GetOr(data, "start", event.start),
                  !.end = GetOr(data, "end", event.end),
                  !.description = GetOr(data, "description", event.description)]

\* /api/events/<id>, app.py:437-498.  The route admits GET, PUT and DELETE;
\* the handler's update branch tests for the method POST, so a PUT reaches
\* the end of the function, which returns None: Flask answers 500.
api_event_detail(event_id, method, data, d) ==
    LET clock == now + d
        event == get_event_by_id(events, event_id)
        checked == validate_event_data(data, FALSE, clock)
        Answer(status, errors, error) ==
            resp' = Response("/api/events/<id>", method, event_id, data, status,
                             errors, error)
    IN  /\ Tick(d)
        /\ IF IsNone(event)
           THEN /\ Answer(NotFound, <<>>, "Event not found")
                /\ UNCHANGED <<events, event_counter, issued, deleted>>
           ELSE IF method = "GET"
           THEN /\ resp' = WithEvent(Response("/api/events/<id>", method, event_id,
                                              data, Ok, <<>>, ""), event)
                /\ UNCHANGED <<events, event_counter, issued, deleted>>
           ELSE IF method = "POST"
           THEN IF DOMAIN data = {}
                THEN /\ Answer(BadRequest, <<>>, "No JSON data provided")
                     /\ UNCHANGED <<events, event_counter, issued, deleted>>
                ELSE IF checked.exc # "none"
                THEN /\ Answer(ServerError, <<>>, checked.exc)
                     /\ UNCHANGED <<events, event_counter, issued, deleted>>
                ELSE IF checked.val # <<>>
                THEN /\ Answer(BadRequest, checked.val, "")
                     /\ UNCHANGED <<events, event_counter, issued, deleted>>
                ELSE /\ events' = save_event(events, Overlay(event, data))
                     /\ Answer(Ok, <<>>, "")
                     /\ UNCHANGED <<event_counter, issued, deleted>>
           ELSE IF method = "DELETE"
           THEN /\ events' = WithoutId(events, event_id)
                /\ deleted' = deleted \cup {event_id}
                /\ Answer(Ok, <<>>, "")
                /\ UNCHANGED <<event_counter, issued>>
           ELSE /\ Answer(ServerError, <<>>, "TypeError")
                /\ UNCHANGED <<events, event_counter, issued, deleted>>

\* GET /api/events/<id>
ApiEventGet(event_id, d) == api_event_detail(event_id, "GET", NoData, d)
\* PUT /api/events/<id>
ApiEventPut(event_id, data, d) == api_event_detail(event_id, "PUT", data, d)
\* DELETE /api/events/<id>
ApiEventDelete(event_id, d) == api_event_detail(event_id, "DELETE", NoData, d)

\* POST /edit_event/<id>, app.py:250-278.  The right-hand side
\* request.form["title"] is evaluated before the assignment to event["title"];
\* the title is assigned, in the list element itself, before
\* request.form["start"] is read.
EditEventPost(event_id, form, d) ==
    LET event == get_event_by_id(events, event_id)
        titled == SetInPlace(events, event_id, "title", form["title"])
        Answer(status, error) ==
            resp' = Response("/edit_event/<id>", "POST", event_id, form, status,
                             <<>>, error)
    IN  /\ Tick(d)
        /\ UNCHANGED <<event_counter, issued, deleted>>
        /\ IF "title" \notin DOMAIN form
           THEN /\ Answer(BadRequest, "KeyError")
                /\ UNCHANGED events
           ELSE IF IsNone(event)
           THEN /\ Answer(ServerError, "TypeError")
                /\ UNCHANGED events
           ELSE IF "start" \notin DOMAIN form
           THEN /\ Answer(BadRequest, "KeyError")
                /\ events' = titled
           ELSE /\ events' =
                    save_event(SetInPlace(titled, event_id, "start", form["start"]),
                               get_event_by_id(
                                   SetInPlace(titled, event_id, "start",
                                              form["start"]), event_id))
                /\ Answer(Found, "")

-----------------------------------------------------------------------------
(* The requests the clients send *)

\* the minute in which the process started
BootMinute == (now - uptime) - ((now - uptime) % SecondsPerMinute)

At(k) == Stamp("ymdhm", BootMinute + k * SecondsPerMinute)
LateStart == Stamp("ymdhm", BootMinute + 100 * SecondsPerDay)

ShortTitle == Padded(0, TitleMin - 1, 0)
NewName == Words(<<3, 4>>)

ValidLow ==
    [schedule_type |-> "manual",
     title |-> Padded(1, TitleMin, 1), start |-> At(1), end |-> At(2),
     description |-> Padded(0, DescriptionMin, 2)]
ValidHigh ==
    [title |-> Padded(0, TitleMax, 0), start |-> At(2), end |-> At(3),
     description |-> Padded(0, DescriptionMax, 0)]
\* the body of test 6 of test_api.py: four rules broken
Invalid4 ==
    [schedule_type |-> "manual",
     title |-> ShortTitle, start |-> At(-60), end |-> At(-120),
     description |-> Padded(0, DescriptionMin - 1, 0)]
NoTitle ==
    [start |-> At(1), end |-> At(2), description |-> Padded(0, DescriptionMin, 0)]
NullTitle ==
    [title |-> NoneV, start |-> At(1), end |-> At(2),
     description |-> Padded(0, DescriptionMin, 0)]
AutoOnly == [schedule_type |-> "auto"]
AutoWithFields ==
    [schedule_type |-> "auto", title |-> NoneV, start |-> Stamp("bad", 0)]

ApiBodies ==
    {AutoOnly, AutoWithFields, ValidLow, Invalid4, NoTitle, NullTitle, NoData}
FormBodies == {AutoOnly, ValidLow, Invalid4, NoTitle}
PutBodies == {[title |-> NewName], [title |-> ShortTitle]}
EditForms ==
    {[title |-> NewName, start |-> LateStart], [title |-> ShortTitle],
     [start |-> At(1)]}

\* the ids a client asks for: every id that can be assigned, and one more
Ids == 1..(MaxEvents + 1)

-----------------------------------------------------------------------------
(* The server: requests served one at a time *)

\* the process starts half a minute before 09:00 of day 0
BootTimes == {AutoHour * SecondsPerHour - ClockStep}

Init ==
    /\ events = <<>>
    /\ event_counter = 1
    /\ now \in BootTimes
    /\ uptime = 0
    /\ resp = Response("", "", 0, NoData, 0, <<>>, "")
    /\ issued = <<>>
    /\ deleted = {}
    /\ threads = [t \in Threads |-> Idle]
    /\ overlapped = FALSE

Next ==
    \/ \E d \in Advance : ApiEventsGet(d)
    \/ \E data \in ApiBodies, d \in Advance : ApiEventsPost(data, d)
    \/ \E form \in FormBodies, api \in BOOLEAN, d \in Advance :
           AddEventPost(form, api, d)
    \/ \E d \in Advance : AutoSchedulePost(d)
    \/ \E id \in Ids, d \in Advance : ApiEventGet(id, d)
    \/ \E id \in Ids, data \in PutBodies, d \in Advance : ApiEventPut(id, data, d)
    \/ \E id \in Ids, d \in Advance : ApiEventDelete(id, d)
    \/ \E id \in Ids, form \in EditForms, d \in Advance : EditEventPost(id, form, d)

Spec == Init /\ [][Next]_vars

-----------------------------------------------------------------------------
(* The first create request, over a wide range of bodies and instants *)

WideTitles ==
    {NoneV, Text(<<>>), Padded(2, 0, 0), Padded(1, TitleMin - 1, 1),
     Padded(1, TitleMin, 1), Padded(1, TitleMax, 1), Padded(0, TitleMax + 1, 0)}
WideDescriptions ==
    {NoneV, Text(<<>>), Padded(1, DescriptionMin - 1, 1),
     Padded(1, DescriptionMin, 1), Padded(0, DescriptionMax, 2),
     Padded(0, DescriptionMax + 1, 0)}
WideStarts ==
    {NoneV, Stamp("empty", 0), Stamp("bad", 0), At(-1), At(0), At(1),
     Stamp("sec", BootMinute + ClockStep),
     Stamp("sec", BootMinute + SecondsPerMinute + 1),
     Stamp("date", (DayOf(BootMinute) + 1) * SecondsPerDay),
     Stamp("tz", BootMinute + SecondsPerMinute)}
WideEnds ==
    {NoneV, Stamp("bad", 0), At(1), At(2),
     Stamp("date", (DayOf(BootMinute) + 1) * SecondsPerDay),
     Stamp("tz", BootMinute + 2 * SecondsPerMinute)}

WideBodies ==
    {[title |-> t, start |-> s, end |-> e, description |-> dsc] :
        t \in WideTitles, s \in WideStarts, e \in WideEnds,
        dsc \in WideDescriptions}
    \cup {[schedule_type |-> "manual", title |-> t, description |-> dsc] :
             t \in WideTitles, dsc \in WideDescriptions}
    \cup ApiBodies \cup {ValidHigh}

\* instants around the hour of the auto events and around midnight, on two days
WideBootTimes ==
    {day * SecondsPerDay + h * SecondsPerHour + sec :
        day \in {0, 1}, h \in {0, AutoHour - 1, AutoHour, 23},
        sec \in {0, SecondsPerHour - ClockStep}}

InitCreate ==
    /\ events = <<>>
    /\ event_counter = 1
    /\ now \in WideBootTimes
    /\ uptime = 0
    /\ resp = Response("", "", 0, NoData, 0, <<>>, "")
    /\ issued = <<>>
    /\ deleted = {}
    /\ threads = [t \in Threads |-> Idle]
    /\ overlapped = FALSE

\* the first request the process serves is a create
FirstCreate ==
    /\ resp.route = ""
    /\ \E data \in WideBodies, d \in Advance : ApiEventsPost(data, d)

NextCreate == FirstCreate

SpecCreate == InitCreate /\ [][NextCreate]_vars

-----------------------------------------------------------------------------
(* The threaded server: app.run (app.py:512) serves each request in a thread
   of its own, and the handlers take no lock, so the statements of two
   handlers that read or write events and event_counter interleave.  Each
   action below is one such statement of a create or of a DELETE. *)

\* a request arrives and is handed to thread t, the first thread that serves
\* no request.  The requests of a burst arrive within one reading of the
\* clock, so the events the factory builds for them differ by their ids only.
Arrive(t) ==
    /\ threads[t].pc = "idle"
    /\ \A u \in 1..(t - 1) : threads[u].pc # "idle"
    /\ UNCHANGED <<now, uptime>>
    /\ overlapped' = (overlapped \/ \E u \in Threads \ {t} : threads[u].pc # "idle")

\* a later statement of the request thread t is serving
Continue(t, pc) ==
    /\ threads[t].pc = pc
    /\ UNCHANGED <<now, uptime, overlapped>>

\* the routes of the creates and the status of their success, app.py:331-344,
\* 366-369, 426-432
ThreadRoutes == {"/api/events", "/add_event", "/auto_schedule"}
SuccessOf(route) == IF route = "/api/events" THEN Created ELSE Found
BodyOf(route) == IF route = "/auto_schedule" THEN NoData ELSE AutoOnly

\* app.py:426 (329, 366): event_data["id"] = event_counter, on the event the
\* factory has just built
CreateAssign(t, route) ==
    /\ Arrive(t)
    /\ Len(issued) < MaxEvents
    /\ threads' = [threads EXCEPT ![t] =
                       [Idle EXCEPT !.pc = "assigned", !.route = route,
                                    !.id = event_counter,
                                    !.event = WithId(create_auto_event(now),
                                                     event_counter)]]
    /\ issued' = Append(issued, event_counter)
    /\ UNCHANGED <<events, event_counter, resp, deleted>>

\* app.py:427 (330, 367): events.append(event_data), on the list the name
\* events is bound to at this moment
CreateAppend(t) ==
    /\ Continue(t, "assigned")
    /\ events' = Append(events, threads[t].event)
    /\ threads' = [threads EXCEPT ![t].pc = "appended"]
    /\ UNCHANGED <<event_counter, resp, issued, deleted>>

\* app.py:428 (331, 368): event_counter += 1, the load of the global
CreateLoad(t) ==
    /\ Continue(t, "appended")
    /\ threads' = [threads EXCEPT ![t].pc = "loaded", ![t].tmp = event_counter]
    /\ UNCHANGED <<events, event_counter, resp, issued, deleted>>

\* app.py:428 (331, 368): event_counter += 1, the store of the sum; the
\* response follows without another access to the globals
CreateFinish(t) ==
    /\ Continue(t, "loaded")
    /\ event_counter' = NextCounter(threads[t].tmp)
    /\ resp' = Response(threads[t].route, "POST", threads[t].id,
                        BodyOf(threads[t].route), SuccessOf(threads[t].route),
                        <<>>, "")
    /\ threads' = [threads EXCEPT ![t] = Idle]
    /\ UNCHANGED <<events, issued, deleted>>

\* app.py:458-462: the lookup of a DELETE, and the 404 when it finds nothing
DeleteLookup(t, event_id) ==
    /\ Arrive(t)
    /\ IF IsNone(get_event_by_id(events, event_id))
       THEN /\ resp' = Response("/api/events/<id>", "DELETE", event_id, NoData,
                                NotFound, <<>>, "Event not found")
            /\ UNCHANGED threads
       ELSE /\ threads' = [threads EXCEPT ![t] =
                               [Idle EXCEPT !.pc = "found",
                                            !.route = "/api/events/<id>",
                                            !.id = event_id]]
            /\ UNCHANGED resp
    /\ UNCHANGED <<events, event_counter, issued, deleted>>

\* app.py:497, right-hand side: the list comprehension builds a new list
\* from the list events is bound to
DeleteFilter(t) ==
    /\ Continue(t, "found")
    /\ threads' = [threads EXCEPT ![t].pc = "filtered",
                                  ![t].copy = WithoutId(events, threads[t].id)]
    /\ UNCHANGED <<events, event_counter, resp, issued, deleted>>

\* app.py:497-498: the name events is bound to the new list, and the answer
DeleteRebind(t) ==
    /\ Continue(t, "filtered")
    /\ events' = threads[t].copy
    /\ deleted' = deleted \cup {threads[t].id}
    /\ resp' = Response("/api/events/<id>", "DELETE", threads[t].id, NoData, Ok,
                        <<>>, "")
    /\ threads' = [threads EXCEPT ![t] = Idle]
    /\ UNCHANGED <<event_counter, issued>>

NextThreads ==
    \/ \E t \in Threads, route \in ThreadRoutes : CreateAssign(t, route)
    \/ \E t \in Threads : CreateAppend(t)
    \/ \E t \in Threads : CreateLoad(t)
    \/ \E t \in Threads : CreateFinish(t)
    \/ \E t \in Threads, id \in Ids : DeleteLookup(t, id)
    \/ \E t \in Threads : DeleteFilter(t)
    \/ \E t \in Threads : DeleteRebind(t)

SpecThreads == Init /\ [][NextThreads]_vars

-----------------------------------------------------------------------------
(* Properties *)

Range(f) == {f[i] : i \in DOMAIN f}
StoredIds == {events[i].id : i \in 1..Len(events)}

DetailRoute == "/api/events/<id>"
CreateRoutes == {"/api/events", "/add_event", "/add_event?api=true"}

\* the request of the record asks for an auto event
AsksAuto(r) == "schedule_type" \in DOMAIN r.data /\ r.data["schedule_type"] = "auto"

\* C1: ids are assigned in strictly increasing order, so no id is assigned
\* twice, no two stored events share an id, every stored id was assigned, and
\* an id that a delete freed was assigned exactly once.
C1_IdsStrictlyIncreasing ==
    /\ \A i, j \in 1..Len(issued) : i < j => issued[i] < issued[j]
    /\ \A i, j \in 1..Len(events) : i # j => events[i].id # events[j].id
    /\ StoredIds \subseteq Range(issued)
    /\ \A id \in deleted : Cardinality({i \in 1..Len(issued) : issued[i] = id}) = 1

\* two ids were assigned, the first was deleted, the second is stored
C1_Witness ==
    /\ Len(issued) = 2
    /\ issued[1] \in deleted
    /\ issued[2] \in StoredIds

\* C2: once a DELETE of an id succeeded, no event with that id is in the
\* store, and every GET of that id is answered 404.
C2_DeletedStaysNotFound ==
    /\ \A id \in deleted : IsNone(get_event_by_id(events, id))
    /\ (resp.route = DetailRoute /\ resp.method = "GET" /\ resp.id \in deleted)
           => resp.status = NotFound

\* a GET of a deleted id, answered 404, after a later create
C2_Witness ==
    /\ resp.route = DetailRoute /\ resp.method = "GET"
    /\ resp.id \in deleted
    /\ resp.status = NotFound
    /\ \E id \in StoredIds : id > resp.id

\* C3: a PUT that carries only a valid title, for an id in the store, is
\* answered 200, sets the stored title and changes nothing else.
C3_TitleOnlyUpdate ==
    [][(/\ resp'.route = DetailRoute /\ resp'.method = "PUT"
        /\ DOMAIN resp'.data = {"title"}
        /\ TitleErrors(resp'.data) = <<>>
        /\ ~IsNone(get_event_by_id(events, resp'.id)))
       => /\ resp'.status = Ok
          /\ events' = save_event(events,
                 [get_event_by_id(events, resp'.id)
                     EXCEPT !.title = resp'.data["title"]])
          /\ event_counter' = event_counter]_vars

\* C4: a manual create on the JSON route whose fields fail validation is
\* answered 400 with the validator's error list, and changes neither the list
\* nor the counter.
C4_InvalidCreateRejected ==
    [][(/\ resp'.route = "/api/events" /\ resp'.method = "POST"
        /\ DOMAIN resp'.data # {}
        /\ ~AsksAuto(resp')
        /\ validate_event_data(resp'.data, FALSE, now').exc = "none"
        /\ validate_event_data(resp'.data, FALSE, now').val # <<>>)
       => /\ resp'.status = BadRequest
          /\ resp'.errors = validate_event_data(resp'.data, FALSE, now').val
          /\ events' = events
          /\ event_counter' = event_counter]_vars

\* the rules of the data model, stated on a request body: all four fields are
\* strings, the trimmed title has 3..200 characters, the trimmed description
\* 10..1000, and the timestamps are naive with clock < start < end
NaiveForms == {"ymdhm", "sec", "date"}
WellFormedManual(data, clock) ==
    /\ {"title", "start", "end", "description"} \subseteq DOMAIN data
    /\ data["title"].ty = "str" /\ data["description"].ty = "str"
    /\ data["start"].ty = "str" /\ data["end"].ty = "str"
    /\ len(strip(data["title"])) \in 3..200
    /\ len(strip(data["description"])) \in 10..1000
    /\ data["start"].fmt \in NaiveForms /\ data["end"].fmt \in NaiveForms
    /\ clock < data["start"].t
    /\ data["start"].t < data["end"].t

\* C5: a manual submission that satisfies the rules gets the empty error
\* list from the validator, and the create stores it and answers 201.
C5_ValidManualAccepted ==
    (/\ resp.route = "/api/events" /\ resp.method = "POST"
     /\ ~AsksAuto(resp)
     /\ WellFormedManual(resp.data, now))
    => /\ validate_event_data(resp.data, FALSE, now) = Return(<<>>)
       /\ resp.status = Created
       /\ resp.id = event_counter - 1
       /\ events # <<>>
       /\ LET e == events[Len(events)]
          IN  /\ e.id = resp.id
              /\ e.type = "manual"
              /\ e.title = strip(resp.data["title"])
              /\ e.description = strip(resp.data["description"])
              /\ e.start = resp.data["start"]
              /\ e.end = resp.data["end"]

\* the boundary case: title of 3, description of 10, start one minute after
\* the clock, end one minute after start, stored
C5_Witness ==
    /\ resp.route = "/api/events" /\ resp.status = Created
    /\ ~AsksAuto(resp)
    /\ len(strip(resp.data["title"])) = 3
    /\ len(strip(resp.data["description"])) = 10
    /\ resp.data["start"].t = now + 60
    /\ resp.data["end"].t = now + 120
    /\ events # <<>>

\* C6: a create that asks for an auto event succeeds whatever else it carries:
\* exactly one event is appended, of type auto, with the fixed title and an end
\* two hours after its start; the validator returns the empty list for it.
C6_AutoCreateSucceeds ==
    [][(resp'.route \in CreateRoutes /\ resp'.method = "POST" /\ AsksAuto(resp'))
       => /\ resp'.status \in
                 (IF resp'.route = "/add_event" THEN {Found} ELSE {Created})
          /\ Len(events') = Len(events) + 1
          /\ SubSeq(events', 1, Len(events)) = events
          /\ LET e == events'[Len(events')]
             IN  /\ e.id = resp'.id
                 /\ e.type = "auto"
                 /\ e.title = Words(<<4, 9, 2, 4>>)
                 /\ e.end.t = e.start.t + 2 * 60 * 60
          /\ validate_event_data(resp'.data, TRUE, now') = Return(<<>>)]_vars

\* an auto request that carries other, invalid fields, stored after another
\* event
C6_Witness ==
    /\ resp.route = "/api/events" /\ resp.status = Created
    /\ AsksAuto(resp)
    /\ DOMAIN resp.data # {"schedule_type"}
    /\ Len(events) = 2
    /\ events[2].type = "auto"

\* C7: the auto event made at an instant starts at 09:00 of the day 49 days
\* after that instant's day, and ends two hours later, at 11:00 of that day.
C7_AutoStartsAtNine ==
    (resp.route = "/api/events" /\ resp.status = Created /\ AsksAuto(resp))
    => LET e == events[Len(events)]
       IN  /\ e.start.fmt = "ymdhm" /\ e.end.fmt = "ymdhm"
           /\ DayOf(e.start.t) = DayOf(now) + 49
           /\ SecondOfDay(e.start.t) = 9 * 60 * 60
           /\ e.end.t = e.start.t + 2 * 60 * 60
           /\ DayOf(e.end.t) = DayOf(e.start.t)
           /\ SecondOfDay(e.end.t) = 11 * 60 * 60

\* an auto event made late in the evening of day 1
C7_Witness ==
    /\ resp.route = "/api/events" /\ resp.status = Created /\ AsksAuto(resp)
    /\ DayOf(now) = 1
    /\ SecondOfDay(now) > 23 * 60 * 60
    /\ events[1].start.t = 50 * 24 * 60 * 60 + 9 * 60 * 60

\* C8: a PUT for an id that is not in the store is answered 404 and changes
\* neither the list nor the counter.
C8_UpdateMissingIsNotFound ==
    [][(/\ resp'.route = DetailRoute /\ resp'.method = "PUT"
        /\ resp'.id \notin StoredIds)
       => /\ resp'.status = NotFound
          /\ events' = events
          /\ event_counter' = event_counter]_vars

\* a PUT for a deleted id, answered 404, while other events are stored
C8_Witness ==
    /\ resp.route = DetailRoute /\ resp.method = "PUT"
    /\ resp.status = NotFound
    /\ resp.id \in deleted
    /\ events # <<>>

\* C9: a PUT for a stored id validates the stored event overlaid with the
\* fields of the request under the manual rules: a valid merged record is
\* committed (200), an invalid one leaves the event unchanged and returns the
\* error list.
C9_UpdateValidatesMerged ==
    [][(/\ resp'.route = DetailRoute /\ resp'.method = "PUT"
        /\ DOMAIN resp'.data # {}
        /\ resp'.id \in StoredIds)
       => LET merged == Overlay(get_event_by_id(events, resp'.id), resp'.data)
              checked == validate_event_data(merged, FALSE, now')
          IN  IF checked = Return(<<>>)
              THEN /\ resp'.status = Ok
                   /\ events' = save_event(events, merged)
              ELSE /\ events' = events
                   /\ resp'.errors = checked.val]_vars

\* C10: every stored event ends strictly after it starts.
C10_EndAfterStart ==
    \A i \in 1..Len(events) :
        /\ fromisoformat(events[i].start).ok
        /\ fromisoformat(events[i].end).ok
        /\ fromisoformat(events[i].end).t > fromisoformat(events[i].start).t

-----------------------------------------------------------------------------
(* Properties, continued *)

ManualKeys == {"title", "start", "end", "description"}
IdsOf(evs) == [i \in 1..Len(evs) |-> evs[i].id]

\* C11: a manual create from which one of the four fields is absent or null is
\* answered 400 with a non-empty error list, never with an unhandled exception.
C11_MissingFieldRejected ==
    (/\ resp.route = "/api/events" /\ resp.method = "POST"
     /\ DOMAIN resp.data # {}
     /\ ~AsksAuto(resp)
     /\ \E k \in ManualKeys : Get(resp.data, k) = NoneV)
    => /\ resp.status = BadRequest
       /\ resp.errors # <<>>

\* C12 as claimed: a DELETE of an id that was deleted before reports success
\* and leaves the store unchanged; 404 is answered only for an id that was
\* never assigned.
C12_DeleteIdempotent ==
    [][(resp'.route = DetailRoute /\ resp'.method = "DELETE")
       => /\ (resp'.id \in deleted
                 => resp'.status = Ok /\ events' = events)
          /\ (resp'.status = NotFound => resp'.id \notin Range(issued))]_vars

\* C12 as amended: a DELETE succeeds exactly when the id is in the store; for
\* an id that is not (deleted before, or never assigned) it is answered 404, and
\* the list and the counter stay as they were.
C12_DeleteAbsentIsNotFound ==
    [][(resp'.route = DetailRoute /\ resp'.method = "DELETE")
       => /\ (resp'.status = Ok) = (resp'.id \in StoredIds)
          /\ (resp'.id \notin StoredIds
                 => /\ resp'.status = NotFound
                    /\ events' = events
                    /\ event_counter' = event_counter
                    /\ deleted' = deleted)]_vars

\* the second DELETE of an id, answered 404, while another event is stored
C12_Witness ==
    /\ resp.route = DetailRoute /\ resp.method = "DELETE"
    /\ resp.id \in deleted
    /\ resp.status = NotFound
    /\ events # <<>>

\* C13: a GET of an id answers 200 exactly when an event with that id is in
\* the store, carries that event with its six attributes, and changes
\* nothing; otherwise it answers 404.
C13_GetReturnsStored ==
    [][(resp'.route = DetailRoute /\ resp'.method = "GET")
       => /\ resp'.status \in {Ok, NotFound}
          /\ (resp'.status = Ok) = (resp'.id \in StoredIds)
          /\ (resp'.status = Ok
                 => /\ \E i \in 1..Len(events) :
                           /\ events[i].id = resp'.id
                           /\ resp'.event = events[i]
                    /\ DOMAIN resp'.event =
                           {"id", "title", "start", "end", "description", "type"})
          /\ events' = events
          /\ event_counter' = event_counter]_vars

\* a GET that finds the event with id 2 while it is the only one stored
C13_Witness ==
    /\ resp.route = DetailRoute /\ resp.method = "GET"
    /\ resp.status = Ok
    /\ resp.id = 2
    /\ Len(events) = 1
    /\ resp.event = events[1]

\* C14: the stored events are in insertion order, ids strictly ascending (an
\* edited event keeps its place); a listing returns exactly the stored list,
\* and its total is the number of creates minus the number of deletes.
C14_ListingInInsertionOrder ==
    /\ \A i, j \in 1..Len(events) : i < j => events[i].id < events[j].id
    /\ Len(events) = Len(issued) - Cardinality(deleted)
    /\ (resp.route = "/api/events" /\ resp.method = "GET")
           => /\ resp.status = Ok
              /\ resp.listing = events
              /\ resp.total = Len(issued) - Cardinality(deleted)

\* a listing of two events, the first of them edited
C14_Witness ==
    /\ resp.route = "/api/events" /\ resp.method = "GET"
    /\ resp.total = 2
    /\ resp.listing[1].title = NewName
    /\ resp.listing[1].id < resp.listing[2].id

\* C15: the start and end of every stored event are written as
\* YYYY-MM-DDTHH:MM.
C15_StoredInWireForm ==
    \A i \in 1..Len(events) :
        events[i].start.fmt = "ymdhm" /\ events[i].end.fmt = "ymdhm"

\* C16: a step keeps every stored event, with its id and its type, unless it
\* is the successful DELETE of that event.
C16_IdAndTypeKept ==
    [][\A i \in 1..Len(events) :
          \/ /\ resp'.route = DetailRoute /\ resp'.method = "DELETE"
             /\ resp'.status = Ok
             /\ resp'.id = events[i].id
             /\ events[i].id \notin {events'[j].id : j \in 1..Len(events')}
          \/ /\ Cardinality({j \in 1..Len(events') :
                                events'[j].id = events[i].id}) = 1
             /\ \A j \in 1..Len(events') :
                    events'[j].id = events[i].id
                        => events'[j].type = events[i].type]_vars

\* an auto event whose title and start a form edit replaced
C16_Witness ==
    /\ resp.route = "/edit_event/<id>" /\ resp.status = Found
    /\ \E i \in 1..Len(events) :
           /\ events[i].id = resp.id
           /\ events[i].type = "auto"
           /\ events[i].title = NewName
           /\ events[i].start = LateStart

\* a manual create over the API that carries a body
ManualCreate ==
    /\ resp.route = "/api/events" /\ resp.method = "POST"
    /\ DOMAIN resp.data # {}
    /\ ~AsksAuto(resp)

\* the messages of each of the four checks, app.py:90-130
TitleMessages ==
    {<<"Title must be at least 3 characters long">>,
     <<"Title must be less than 200 characters">>}
StartMessages ==
    {<<"Start date and time are required">>,
     <<"Invalid start date format">>,
     <<"Start dates cannot be in the past">>}
EndMessages ==
    {<<"End date and time are required">>,
     <<"Invalid end date format">>,
     <<"End time must be after start time">>}
DescriptionMessages ==
    {<<"Description must be at least 10 characters long">>,
     <<"Description must be less than 1000 characters">>}

\* C18: for a manual submission whose start parses, the validator reports
\* "Start dates cannot be in the past" whenever start is not strictly after
\* the clock, the case start = clock included.
C18_StartNotAfterNowRejected ==
    (/\ ManualCreate
     /\ StampTruthy(Get(resp.data, "start"))
     /\ fromisoformat(Get(resp.data, "start")).ok
     /\ ~fromisoformat(Get(resp.data, "start")).aware
     /\ fromisoformat(Get(resp.data, "start")).t <= now
     /\ create_manual_event(resp.data).exc = "none")
    => LET v == validate_event_data(resp.data, FALSE, now)
       IN  v.exc = "none"
               => /\ "Start dates cannot be in the past" \in Range(v.val)
                  /\ resp.status = BadRequest
                  /\ resp.errors = v.val

\* C19: for a manual submission whose start is present and does not parse,
\* and whose end parses, the validator reports "Invalid start date format" and
\* no message about the end.
C19_BadStartLeavesEndAlone ==
    (/\ ManualCreate
     /\ StampTruthy(Get(resp.data, "start"))
     /\ ~fromisoformat(Get(resp.data, "start")).ok
     /\ StampTruthy(Get(resp.data, "end"))
     /\ fromisoformat(Get(resp.data, "end")).ok
     /\ create_manual_event(resp.data).exc = "none")
    => LET v == validate_event_data(resp.data, FALSE, now)
       IN  /\ v.exc = "none"
           /\ "Invalid start date format" \in Range(v.val)
           /\ \A m \in EndMessages : m[1] \notin Range(v.val)
           /\ resp.status = BadRequest
           /\ resp.errors = v.val

\* the input of test 6 of test_api.py: a title of two characters, a start in
\* the past, an end before the start, a description shorter than 10
FourRulesBroken(data, clock) ==
    /\ ManualKeys \subseteq DOMAIN data
    /\ TextTruthy(data["title"]) /\ len(strip(data["title"])) = 2
    /\ data["start"].ty = "str" /\ data["start"].fmt = "ymdhm"
    /\ data["end"].ty = "str" /\ data["end"].fmt = "ymdhm"
    /\ data["start"].t < clock
    /\ data["end"].t < data["start"].t
    /\ TextTruthy(data["description"])
    /\ len(strip(data["description"])) < 10

\* C20: for every manual input the validator returns at most 5 messages, in
\* the order title, start, end, description, with at most one message of each
\* check, so never both the too-short and the too-long message of a field; the
\* input that breaks four rules gets exactly the four messages title too
\* short, start in the past, end before start, description too short, and
\* the create answers 400 with that list.
C20_MessagesInCheckOrder ==
    ManualCreate
    => LET v == validate_event_data(resp.data, FALSE, now)
       IN  v.exc = "none"
           => /\ Len(v.val) <= 5
              /\ \E t \in TitleMessages \cup {<<>>},
                    s \in StartMessages \cup {<<>>},
                    e \in EndMessages \cup {<<>>},
                    d \in DescriptionMessages \cup {<<>>} :
                     v.val = t \o s \o e \o d
              /\ \A ms \in {TitleMessages, DescriptionMessages} :
                     Cardinality({i \in 1..Len(v.val) : <<v.val[i]>> \in ms}) <= 1
              /\ FourRulesBroken(resp.data, now)
                     => /\ v.val = <<"Title must be at least 3 characters long",
                                     "Start dates cannot be in the past",
                                     "End time must be after start time",
                                     "Description must be at least 10 characters long">>
                        /\ resp.status = BadRequest
                        /\ resp.errors = v.val

\* the create that breaks four rules, answered with four messages
C20_Witness ==
    /\ ManualCreate
    /\ FourRulesBroken(resp.data, now)
    /\ resp.status = BadRequest
    /\ Len(resp.errors) = 4

-----------------------------------------------------------------------------
(* Properties of the auto factory, the stored texts and the frame of DELETE *)

\* C21: the event create_auto_event builds at an instant passes every manual
\* rule at that instant: the validator, asked to treat it as a manual
\* submission, returns the empty list; its title has 3..200 characters, its
\* description 10..1000, its start is after the instant and its end after
\* its start.
C21_AutoEventPassesManualRules ==
    (resp.route = "/api/events" /\ resp.status = Created /\ AsksAuto(resp))
    => LET e == events[Len(events)]
       IN  /\ e.type = "auto"
           /\ validate_event_data(e, FALSE, now) = Return(<<>>)
           /\ validate_event_data(create_auto_event(now), FALSE, now)
                  = Return(<<>>)
           /\ len(strip(e.title)) \in TitleMin..TitleMax
           /\ len(strip(e.description)) \in DescriptionMin..DescriptionMax
           /\ fromisoformat(e.start).t > now
           /\ fromisoformat(e.end).t > fromisoformat(e.start).t

\* an auto event made at 09:00:00 sharp, the time of day auto events start at
C21_Witness ==
    /\ resp.route = "/api/events" /\ resp.status = Created /\ AsksAuto(resp)
    /\ SecondOfDay(now) = AutoHour * SecondsPerHour
    /\ events[Len(events)].type = "auto"

\* C22: every stored event has a title of 3..200 characters and a
\* description of 10..1000 characters, both counted after trimming, whatever
\* creates, updates, form edits and deletes were served.
C22_StoredTextsWithinBounds ==
    \A i \in 1..Len(events) :
        /\ TextTruthy(events[i].title)
        /\ len(strip(events[i].title)) \in TitleMin..TitleMax
        /\ TextTruthy(events[i].description)
        /\ len(strip(events[i].description))
               \in DescriptionMin..DescriptionMax

\* C23: a DELETE that reports success removes the one event with the id of
\* the request; the events before and after it stay, with all their fields,
\* in their order, and the counter keeps its value.
C23_DeleteRemovesOnlyThatEvent ==
    [][(resp'.route = DetailRoute /\ resp'.method = "DELETE"
           /\ resp'.status = Ok)
       => /\ \E k \in 1..Len(events) :
                /\ events[k].id = resp'.id
                /\ events' = SubSeq(events, 1, k - 1)
                                 \o SubSeq(events, k + 1, Len(events))
          /\ \A j \in 1..Len(events') : events'[j].id # resp'.id
          /\ event_counter' = event_counter]_vars

\* the first of two events deleted, the second left alone in the store
C23_Witness ==
    /\ resp.route = DetailRoute /\ resp.method = "DELETE" /\ resp.status = Ok
    /\ resp.id = 1
    /\ Len(events) = 1
    /\ events[1].id = 2
    /\ event_counter = 3

\* the routes that store an event, app.py:284, 359, 374
StoringRoutes == CreateRoutes \cup {"/auto_schedule"}

\* C26: the creates of all routes draw their ids from one counter: it is one
\* more than the number of events stored so far (1 at the start), the k-th
\* create that stores an event gives it the id k and advances the counter by
\* one, no other request changes the counter, and the counter exceeds every
\* stored id.
C26_OneCounterForAllRoutes ==
    [][LET stores == /\ resp'.route \in StoringRoutes
                     /\ resp'.method = "POST"
                     /\ resp'.status \in {Created, Found}
           k == Len(issued) + 1
       IN  /\ event_counter = k
           /\ stores => /\ Len(events') = Len(events) + 1
                         /\ SubSeq(events', 1, Len(events)) = events
                         /\ events'[Len(events')].id = k
                         /\ resp'.id = k
                         /\ issued' = Append(issued, k)
                         /\ event_counter' = k + 1
           /\ ~stores => /\ event_counter' = event_counter
                          /\ issued' = issued
                          /\ Len(events') <= Len(events)
           /\ \A i \in 1..Len(events') : events'[i].id < event_counter']_vars

\* the second event of the process stored by /auto_schedule after a manual
\* event stored by another route
C26_Witness ==
    /\ resp.route = "/auto_schedule" /\ resp.status = Found
    /\ resp.id = 2
    /\ event_counter = 3
    /\ Len(events) = 2
    /\ events[1].id = 1 /\ events[1].type = "manual"
    /\ events[2].id = 2

\* C27: a form edit (POST /edit_event/<id>) of an id that is not stored is
\* answered 404, not with an unhandled exception, and leaves the event list
\* unchanged.
C27_EditMissingIsNotFound ==
    [][(/\ resp'.route = "/edit_event/<id>" /\ resp'.method = "POST"
        /\ resp'.id \notin StoredIds)
       => /\ resp'.status = NotFound
          /\ events' = events]_vars

-----------------------------------------------------------------------------
(* Properties of the threaded server *)

\* two stored events carry the same id
DuplicateIds ==
    \E i, j \in 1..Len(events) : i < j /\ events[i].id = events[j].id

\* a create whose statements are not all executed yet
CreatePcs == {"assigned", "appended", "loaded"}
AllIdle == \A t \in Threads : threads[t].pc = "idle"

\* an id was assigned, every create that got it has answered, no DELETE has
\* removed it, and no stored event carries it
Lost ==
    \E k \in 1..Len(issued) :
        /\ issued[k] \notin deleted
        /\ issued[k] \notin StoredIds
        /\ \A t \in Threads :
               ~(threads[t].pc \in CreatePcs /\ threads[t].id = issued[k])

\* C24: the handlers take no lock, so ids are unique only as long as every
\* request ran to completion before the next began: while no request has
\* begun during another, no two stored events share an id and the ids were
\* assigned in increasing order; two creates that interleave between the read
\* of the counter and its increment store two events with the same id (the
\* witness).
C24_UniqueOnlyWhenSerial ==
    overlapped
    \/ /\ ~DuplicateIds
       /\ \A i, j \in 1..Len(issued) : i < j => issued[i] < issued[j]
       /\ event_counter >= Len(issued)

\* two creates have both answered, and both stored events have the id 1
C24_Witness ==
    /\ AllIdle
    /\ overlapped
    /\ Len(events) = 2
    /\ events[1].id = 1 /\ events[2].id = 1
    /\ resp.method = "POST" /\ resp.id = 1

\* C25: a create can be lost to a DELETE of another id that interleaves
\* with it: the DELETE binds the store to the filtered copy it built before
\* the create appended (the witness).  While no request has begun during
\* another, every id that a create was answered for is in the store unless a
\* DELETE removed it.
C25_CreateLostOnlyWhenInterleaved ==
    Lost => overlapped

\* the create of event 2 answered and advanced the counter to 3, the DELETE
\* of event 1 then bound the store to the copy it had built: event 2 is gone
C25_Witness ==
    /\ AllIdle
    /\ Lost
    /\ issued = <<1, 2>>
    /\ deleted = {1}
    /\ event_counter = 3
    /\ events = <<>>
    /\ resp.method = "DELETE" /\ resp.status = Ok /\ resp.id = 1

=============================================================================
